---- MODULE Spec2Model ----
(***************************************************************************)
(* A model of the ODIN token library (4Players/odin-tokens).               *)
(*                                                                         *)
(* Three variants of the library live in the repository:                   *)
(*   "index"  src/src/index.ts      generateApiKey / loadApiKey, tweetnacl *)
(*   "sync"   src/unnamed/part_000  generateAccessKey / loadAccessKey,     *)
(*                                  tweetnacl, synchronous                 *)
(*   "mod"    src/src/mod.ts        generateAccessKey / loadAccessKey,     *)
(*                                  @noble/ed25519, asynchronous           *)
(*                                                                         *)
(* Bytes are naturals 0..255, byte arrays are sequences (index 1 of the    *)
(* model is index 0 of the code), text is a sequence of one-character      *)
(* strings.                                                                *)
(***************************************************************************)
EXTENDS Integers, Sequences, FiniteSets, TLC

VARIABLES
    op,     \* a call of a free function (generate*, load*, getKeyId)
    scn,    \* the program at hand: the library it imports and the values it uses
    now,    \* Date.now(): the wall clock, in milliseconds
    gen,    \* by place: a `new TokenGenerator(...)` and what it produced
    calls   \* the createToken calls: suspended at an await, returned or rejected

vars == <<op, scn, now, gen, calls>>

Variants == {"index", "sync", "mod"}

(***************************************************************************)
(* Bit operations of JavaScript on the small non-negative values the code  *)
(* applies them to (the crc register stays below 2^16, far inside int32).  *)
(***************************************************************************)
\* Loops are written as recursive functions: the loop variables are the
\* arguments, evaluated before each round as the code evaluates them.
BitXor[a \in Nat, b \in Nat] ==
    IF a = 0 THEN b
    ELSE IF b = 0 THEN a
    ELSE ((a + b) % 2) + 2 * BitXor[a \div 2, b \div 2]

BitAnd[a \in Nat, b \in Nat] ==
    IF a = 0 \/ b = 0 THEN 0
    ELSE ((a % 2) * (b % 2)) + 2 * BitAnd[a \div 2, b \div 2]

Bytes == Seq(0..255)

(***************************************************************************)
(* crc8: the bit loop works on the unmasked register and the register is   *)
(* masked once per input byte.  The three files hold the same function.    *)
(***************************************************************************)
\* for (let j = 0; j < 8; j++) ...
crc8Bits[crc \in Nat, j \in 0..8] ==
    IF j = 8 THEN crc
    ELSE crc8Bits[IF BitAnd[crc, 128] # 0 THEN BitXor[crc * 2, 49] ELSE crc * 2,
                  j + 1]

\* for (let i = 0; i < data.length; i++) ...
crc8Bytes[data \in Bytes, crc \in Nat, i \in Nat] ==
    IF i = Len(data) THEN crc
    ELSE crc8Bytes[data, BitAnd[255, crc8Bits[BitXor[crc, data[i + 1]], 0]], i + 1]

\* crc8 with its register starting at 0.
crc8_zeroRegister(data) == crc8Bytes[data, 0, 0]

crc8(data) == crc8Bytes[data, 255, 0]

(***************************************************************************)
(* Base64.  The standard alphabet with padding is what Base64.fromUint8-   *)
(* Array(key) and encodeBase64(key) produce; the URL-safe alphabet without *)
(* padding is what Base64.encode(s, true), Base64.fromUint8Array(sig,      *)
(* true) and encodeBase64Url produce.                                      *)
(***************************************************************************)
B64Std ==
    << "A","B","C","D","E","F","G","H","I","J","K","L","M","N","O","P",
       "Q","R","S","T","U","V","W","X","Y","Z","a","b","c","d","e","f",
       "g","h","i","j","k","l","m","n","o","p","q","r","s","t","u","v",
       "w","x","y","z","0","1","2","3","4","5","6","7","8","9","+","/" >>

B64Url == [k \in 1..64 |-> IF k = 63 THEN "-" ELSE IF k = 64 THEN "_" ELSE B64Std[k]]

Range(s) == {s[k] : k \in 1..Len(s)}

\* The six-bit value of the p-th character (p in 0..3) of the g-th group.
B64Sextet(bytes, g, p) ==
    LET n == Len(bytes)
        b(i) == IF i <= n THEN bytes[i] ELSE 0
        b0 == b(3 * g + 1)
        b1 == b(3 * g + 2)
        b2 == b(3 * g + 3)
    IN  CASE p = 0 -> b0 \div 4
          [] p = 1 -> (b0 % 4) * 16 + (b1 \div 16)
          [] p = 2 -> (b1 % 16) * 4 + (b2 \div 64)
          [] OTHER -> b2 % 64

B64Encode(bytes, alphabet, pad) ==
    LET n == Len(bytes)
        full == 4 * ((n + 2) \div 3)
        used == 4 * (n \div 3) + (IF n % 3 = 0 THEN 0 ELSE (n % 3) + 1)
    IN  [k \in 1..(IF pad THEN full ELSE used) |->
            IF k > used THEN "="
            ELSE alphabet[B64Sextet(bytes, (k - 1) \div 4, (k - 1) % 4) + 1]]

\* The text without its trailing padding (at most two "=").
B64Unpad(text) ==
    LET n == Len(text)
        cut == IF n >= 2 /\ text[n] = "=" /\ text[n - 1] = "=" THEN 2
               ELSE IF n >= 1 /\ text[n] = "=" THEN 1 ELSE 0
    IN  SubSeq(text, 1, n - cut)

B64Value(c) ==
    IF c = "-" THEN 62
    ELSE IF c = "_" THEN 63
    ELSE (CHOOSE k \in 1..64 : B64Std[k] = c) - 1

B64Decode(text) ==
    LET t == B64Unpad(text)
        v(i) == IF i <= Len(t) THEN B64Value(t[i]) ELSE 0
    IN  [j \in 1..((Len(t) * 6) \div 8) |->
            LET g == (j - 1) \div 3
                r == (j - 1) % 3
            IN  CASE r = 0 -> v(4 * g + 1) * 4 + (v(4 * g + 2) \div 16)
                  [] r = 1 -> (v(4 * g + 2) % 16) * 16 + (v(4 * g + 3) \div 4)
                  [] OTHER -> (v(4 * g + 3) % 4) * 64 + v(4 * g + 4)]

\* js-base64: Base64.fromUint8Array(u8a) and Base64.fromUint8Array(u8a, true).
Base64_fromUint8Array(u8a, urlsafe) ==
    IF urlsafe THEN B64Encode(u8a, B64Url, FALSE) ELSE B64Encode(u8a, B64Std, TRUE)

\* js-base64: Base64.isValid accepts text that is wholly in the standard or
\* wholly in the URL-safe alphabet, padding aside.
Base64_isValid(text) ==
    LET t == B64Unpad(text)
    IN  Range(t) \subseteq Range(B64Std) \/ Range(t) \subseteq Range(B64Url)

Base64_toUint8Array(text) == B64Decode(text)

\* @std/encoding: encodeBase64 and decodeBase64 (atob: the standard alphabet
\* only, and never a lone trailing character).
encodeBase64(bytes) == B64Encode(bytes, B64Std, TRUE)

decodeBase64(text) ==
    LET t == B64Unpad(text)
    IN  IF Range(t) \subseteq Range(B64Std) /\ Len(t) % 4 # 1
        THEN [ok |-> TRUE, bytes |-> B64Decode(text)]
        ELSE [ok |-> FALSE, error |-> "InvalidCharacterError"]

(***************************************************************************)
(* The cryptographic primitives of the libraries the code calls.  Ed25519  *)
(* and SHA-512 are deterministic functions of byte arrays; the model keeps *)
(* them as fixed functions that read every byte of their arguments, and    *)
(* gives the values the repository's own tests record for the test key.    *)
(***************************************************************************)
TestSeed ==
    << 194, 27, 141, 74, 199, 3, 193, 21, 235, 100, 192, 25, 135, 48, 14, 209,
       225, 67, 204, 13, 222, 85, 230, 112, 171, 69, 180, 223, 210, 189, 211, 0 >>

TestPublicKey ==
    << 100, 102, 30, 254, 240, 89, 84, 217, 51, 67, 167, 195, 240, 25, 164, 37,
       70, 250, 163, 74, 124, 193, 242, 173, 220, 250, 133, 87, 30, 190, 109, 238 >>

\* SHA-512 of TestPublicKey.
TestDigest ==
    << 117, 70, 49, 87, 158, 252, 74, 54, 39, 17, 198, 160, 77, 130, 99, 81,
       209, 205, 224, 224, 112, 42, 125, 35, 66, 44, 178, 25, 9, 136, 98, 213,
       162, 226, 100, 168, 207, 38, 106, 208, 62, 141, 235, 98, 104, 7, 232, 15,
       117, 245, 81, 25, 19, 254, 97, 57, 38, 246, 45, 191, 160, 167, 88, 18 >>

\* A 16-bit digest of a byte array that reads every byte and its position.
RECURSIVE MixBlock(_, _, _, _)
MixBlock(bytes, i, hi, acc) ==
    IF i > hi \/ acc < 0 THEN acc
    ELSE MixBlock(bytes, i + 1, hi, (acc * 31 + bytes[i] + 1) % 65521)

\* Sixteen bytes at a time, as ScanFrom reads a text.
RECURSIVE MixFrom(_, _, _)
MixFrom(bytes, i, acc) ==
    IF i > Len(bytes) \/ acc < 0 THEN acc
    ELSE LET hi == IF i + 15 < Len(bytes) THEN i + 15 ELSE Len(bytes)
         IN  MixFrom(bytes, hi + 1, MixBlock(bytes, i, hi, acc))

Mix(bytes) == MixFrom(bytes, 1, 7)

\* nacl.hash / ed25519.etc.sha512Async: a 64-byte digest.
sha512(message) ==
    IF message = TestPublicKey THEN TestDigest
    ELSE LET m == Mix(message)
         IN  [k \in 1..64 |-> ((m % 256) * k + (m \div 256) * (k * k + 3)
                                + message[((k - 1) % Len(message)) + 1]) % 256]

\* The Ed25519 public key of a 32-byte seed.
ed25519_getPublicKey(seed) ==
    IF seed = TestSeed THEN TestPublicKey
    ELSE LET m == Mix(seed)
         IN  [k \in 1..32 |-> ((m % 256) + (m \div 256) * k
                                + 3 * seed[((k - 1) % Len(seed)) + 1]) % 256]

\* The Ed25519 signature of a message under a 32-byte seed: 64 bytes.
ed25519_sign(message, seed) ==
    LET m == Mix(message)
        s == Mix(seed)
    IN  [k \in 1..64 |-> ((m % 256) * k + (m \div 256) * (65 - k)
                           + (s % 256) * (k + 1) + (s \div 256)) % 256]

\* tweetnacl: the secret key is the seed followed by the public key.
nacl_sign_keyPair_fromSeed(seed) ==
    LET publicKey == ed25519_getPublicKey(seed)
    IN  [publicKey |-> publicKey, secretKey |-> seed \o publicKey]

\* tweetnacl signs with the seed half of its 64-byte secret key.
nacl_sign_detached(message, secretKey) ==
    ed25519_sign(message, SubSeq(secretKey, 1, 32))

(***************************************************************************)
(* Access keys.                                                            *)
(***************************************************************************)
KeyBytes == 33

RandomBytes == 31

Zeroes(n) == [k \in 1..n |-> 0]

\* key.set(source, offset), with the offset as the code gives it.
SetAt(key, source, offset) ==
    [k \in 1..Len(key) |->
        IF k > offset /\ k <= offset + Len(source) THEN source[k - offset] ELSE key[k]]

\* The checksum taken over the checksum slot too.
generateAccessKey_crcOverSlot(random) ==
    LET key0 == [Zeroes(KeyBytes) EXCEPT ![1] = 1]
        key1 == SetAt(key0, random, 1)
        key2 == [key1 EXCEPT ![33] = crc8(SubSeq(key1, 2, 33))]
    IN  Base64_fromUint8Array(key2, FALSE)

\* src/unnamed/part_000; random is what nacl.randomBytes(31) returned.
generateAccessKey(random) ==
    LET key0 == [Zeroes(KeyBytes) EXCEPT ![1] = 1]
        key1 == SetAt(key0, random, 1)
        key2 == [key1 EXCEPT ![33] = crc8(SubSeq(key1, 2, 32))]
    IN  Base64_fromUint8Array(key2, FALSE)

\* src/src/index.ts
generateApiKey(random) ==
    LET key0 == [Zeroes(KeyBytes) EXCEPT ![1] = 1]
        key1 == SetAt(key0, random, 1)
        key2 == [key1 EXCEPT ![32] = crc8(SubSeq(key1, 2, 31))]
    IN  Base64_fromUint8Array(key2, FALSE)

\* src/src/mod.ts; random is what crypto.getRandomValues wrote into
\* key.subarray(1, 32).
generateAccessKey_mod(random) ==
    LET key0 == [Zeroes(KeyBytes) EXCEPT ![1] = 1]
        key1 == SetAt(key0, random, 1)
        key2 == [key1 EXCEPT ![33] = crc8(SubSeq(key1, 2, 32))]
    IN  encodeBase64(key2)

\* The test without its length check.
KeyBytesInvalid_anyLength(bytes) ==
    \/ Len(bytes) = 0
    \/ bytes[1] # 1
    \/ crc8(SubSeq(bytes, 2, Len(bytes))) # 0

\* The test of the load functions without the checksum.
KeyBytesInvalid_noChecksum(bytes) ==
    \/ Len(bytes) = 0
    \/ bytes[1] # 1
    \/ Len(bytes) # KeyBytes

\* The test of the three load functions on the decoded bytes; bytes[0] of an
\* empty array is undefined, which is not 0x01.
KeyBytesInvalid(bytes) ==
    \/ Len(bytes) = 0
    \/ bytes[1] # 1
    \/ Len(bytes) # KeyBytes
    \/ crc8(SubSeq(bytes, 2, Len(bytes))) # 0

\* src/unnamed/part_000
loadAccessKey(accessKey) ==
    IF ~Base64_isValid(accessKey) THEN [ok |-> FALSE, error |-> "invalid access key"]
    ELSE LET bytes == Base64_toUint8Array(accessKey)
         IN  IF KeyBytesInvalid(bytes)
             THEN [ok |-> FALSE, error |-> "invalid access key"]
             ELSE [ok |-> TRUE,
                   value |-> nacl_sign_keyPair_fromSeed(SubSeq(bytes, 2, Len(bytes)))]

\* src/src/index.ts
loadApiKey(apiKey) ==
    IF ~Base64_isValid(apiKey) THEN [ok |-> FALSE, error |-> "invalid api key"]
    ELSE LET bytes == Base64_toUint8Array(apiKey)
         IN  IF KeyBytesInvalid(bytes)
             THEN [ok |-> FALSE, error |-> "invalid api key"]
             ELSE [ok |-> TRUE,
                   value |-> nacl_sign_keyPair_fromSeed(SubSeq(bytes, 2, Len(bytes)))]

\* src/src/mod.ts: throws, or returns a promise already resolved with the seed.
loadAccessKey_mod(accessKey) ==
    LET decoded == decodeBase64(accessKey)
    IN  IF ~decoded.ok THEN [ok |-> FALSE, error |-> decoded.error]
        ELSE IF KeyBytesInvalid(decoded.bytes)
        THEN [ok |-> FALSE, error |-> "invalid access key"]
        ELSE [ok |-> TRUE, value |-> SubSeq(decoded.bytes, 2, Len(decoded.bytes))]

(***************************************************************************)
(* Key ids.                                                                *)
(***************************************************************************)
\* The two nested loops of getKeyId: i and j count, x runs through the hash.
getKeyIdLoop[hash \in Bytes, result \in Bytes, i \in 0..8, j \in 0..8, x \in Nat] ==
    IF i = 8 THEN result
    ELSE IF j = 8 THEN getKeyIdLoop[hash, result, i + 1, 0, x]
    ELSE getKeyIdLoop[hash, [result EXCEPT ![2 + j] = BitXor[@, hash[x + 1]]],
                      i, j + 1, x + 1]

\* The fold with the result index taken from the outer loop.
getKeyIdLoop_outer[hash \in Bytes, result \in Bytes, i \in 0..8, j \in 0..8, x \in Nat] ==
    IF i = 8 THEN result
    ELSE IF j = 8 THEN getKeyIdLoop_outer[hash, result, i + 1, 0, x]
    ELSE getKeyIdLoop_outer[hash, [result EXCEPT ![2 + i] = BitXor[@, hash[x + 1]]],
                            i, j + 1, x + 1]

getKeyId_outer(publicKey) ==
    LET hash == sha512(publicKey)
        result == [Zeroes(9) EXCEPT ![1] = 1]
    IN  Base64_fromUint8Array(getKeyIdLoop_outer[hash, result, 0, 0, 0], FALSE)

\* src/unnamed/part_000 and, the same text, src/src/index.ts
getKeyId(publicKey) ==
    LET hash == sha512(publicKey)
        result == [Zeroes(9) EXCEPT ![1] = 1]
    IN  Base64_fromUint8Array(getKeyIdLoop[hash, result, 0, 0, 0], FALSE)

\* src/src/mod.ts: from the secret key (the seed)
getKeyId_mod(key) ==
    LET publicKey == ed25519_getPublicKey(key)
        hash == sha512(publicKey)
        result == [Zeroes(9) EXCEPT ![1] = 1]
    IN  encodeBase64(getKeyIdLoop[hash, result, 0, 0, 0])

(***************************************************************************)
(* Text and JSON.  The code serializes plain objects with JSON.stringify   *)
(* and encodes the text as UTF-8; the model covers printable ASCII.        *)
(***************************************************************************)
\* The characters of code 32 to 126, in order (the grave accent, code 96,
\* cannot be written in a string of the language: its place holds "").
AsciiPrintable ==
    << " ", "!", "\"", "#", "$", "%", "&", "'", "(", ")", "*", "+", ",", "-", ".", "/",
       "0", "1", "2", "3", "4", "5", "6", "7", "8", "9", ":", ";", "<", "=", ">", "?",
       "@", "A", "B", "C", "D", "E", "F", "G", "H", "I", "J", "K", "L", "M", "N", "O",
       "P", "Q", "R", "S", "T", "U", "V", "W", "X", "Y", "Z", "[", "\\", "]", "^", "_",
       "", "a", "b", "c", "d", "e", "f", "g", "h", "i", "j", "k", "l", "m", "n", "o",
       "p", "q", "r", "s", "t", "u", "v", "w", "x", "y", "z", "{", "|", "}", "~" >>

CharCode(c) == 31 + (CHOOSE k \in 1..Len(AsciiPrintable) : AsciiPrintable[k] = c)

\* new TextEncoder().encode(text)
TextEncoder_encode(text) == [k \in 1..Len(text) |-> CharCode(text[k])]

\* JavaScript values: undefined, strings, numbers, arrays and plain objects (a
\* plain object is the sequence of its properties, in insertion order).
Undefined == [t |-> "undefined"]

Str(s) == [t |-> "string", s |-> s]

Num(n) == [t |-> "number", n |-> n]

Arr(a) == [t |-> "array", a |-> a]

Obj(m) == [t |-> "object", m |-> m]

Prop(k, v) == [k |-> k, v |-> v]

\* object?.key
Get(object, key) ==
    IF object = Undefined THEN Undefined
    ELSE IF \E k \in 1..Len(object.m) : object.m[k].k = key
    THEN object.m[CHOOSE k \in 1..Len(object.m) : object.m[k].k = key].v
    ELSE Undefined

\* a ?? b
Nullish(a, b) == IF a = Undefined THEN b ELSE a

Digits == <<"0", "1", "2", "3", "4", "5", "6", "7", "8", "9">>

NatText[n \in Nat] ==
    IF n < 10 THEN <<Digits[n + 1]>> ELSE NatText[n \div 10] \o <<Digits[(n % 10) + 1]>>

NumberText(n) == IF n < 0 THEN <<"-">> \o NatText[0 - n] ELSE NatText[n]

\* JSON's quoting of a string of printable ASCII.
Quote(s) ==
    LET esc[k \in 0..Len(s)] ==
            IF k = 0 THEN <<>>
            ELSE esc[k - 1] \o (IF s[k] \in {"\"", "\\"} THEN <<"\\", s[k]>> ELSE <<s[k]>>)
    IN  <<"\"">> \o esc[Len(s)] \o <<"\"">>

\* The pieces of a sequence of texts, joined by commas.
Commas(texts) ==
    LET join[k \in 0..Len(texts)] ==
            IF k = 0 THEN <<>>
            ELSE IF k = 1 THEN texts[1]
            ELSE join[k - 1] \o <<",">> \o texts[k]
    IN  join[Len(texts)]

\* JSON.stringify(value): a property whose value is undefined is left out of
\* an object; an undefined array element is written null.
RECURSIVE JSON_stringify(_)
JSON_stringify(value) ==
    CASE value.t = "string" -> Quote(value.s)
      [] value.t = "number" -> NumberText(value.n)
      [] value.t = "array" ->
            <<"[">>
            \o Commas([k \in 1..Len(value.a) |->
                          IF value.a[k] = Undefined THEN <<"n", "u", "l", "l">>
                          ELSE JSON_stringify(value.a[k])])
            \o <<"]">>
      [] value.t = "object" ->
            LET kept == SelectSeq(value.m, LAMBDA p : p.v # Undefined)
            IN  <<"{">>
                \o Commas([k \in 1..Len(kept) |->
                              Quote(kept[k].k) \o <<":">> \o JSON_stringify(kept[k].v)])
                \o <<"}">>

\* js-base64: Base64.encode(text, true)
Base64_encode(text, urlsafe) ==
    B64Encode(TextEncoder_encode(text), IF urlsafe THEN B64Url ELSE B64Std, ~urlsafe)

\* @std/encoding: encodeBase64Url of a string or of bytes
encodeBase64Url(bytes) == B64Encode(bytes, B64Url, FALSE)

\* src/unnamed/part_000 and, the same text, src/src/index.ts
base64EncodeObject(object) == Base64_encode(JSON_stringify(object), TRUE)

\* src/src/mod.ts
base64EncodeObject_mod(object) == encodeBase64Url(TextEncoder_encode(JSON_stringify(object)))

(***************************************************************************)
(* Reading a token back, as a verifier does: the segments between the      *)
(* dots, the text of a segment, and the members of a JSON object's text.   *)
(***************************************************************************)
\* The positions of the dots of a text, in order.
DotsOf(text) == SelectSeq([k \in 1..Len(text) |-> k], LAMBDA k : text[k] = ".")

\* The segments of a text between its dots.
Segments(text) ==
    LET dots == <<0>> \o DotsOf(text) \o <<Len(text) + 1>>
    IN  [k \in 1..(Len(dots) - 1) |-> SubSeq(text, dots[k] + 1, dots[k + 1] - 1)]

\* The text of UTF-8 bytes (printable ASCII).
TextDecoder_decode(bytes) == [k \in 1..Len(bytes) |-> AsciiPrintable[bytes[k] - 31]]

\* One character of a JSON object's text read by a scanner that keeps the
\* nesting depth, whether it is inside a string, and the member being read.
ScanStep(st, c) ==
    LET grow == IF st.part = "key" THEN [st EXCEPT !.key = @ \o <<c>>]
                ELSE [st EXCEPT !.val = @ \o <<c>>]
        emit == [st EXCEPT !.out = @ \o <<[k |-> st.key, v |-> st.val]>>,
                           !.part = "key", !.key = <<>>, !.val = <<>>]
    IN  IF st.inString
        THEN IF st.escaped THEN [grow EXCEPT !.escaped = FALSE]
             ELSE IF c = "\\" THEN [(IF st.part = "key" THEN st ELSE grow) EXCEPT !.escaped = TRUE]
             ELSE IF c = "\"" THEN [(IF st.part = "key" THEN st ELSE grow) EXCEPT !.inString = FALSE]
             ELSE grow
        ELSE CASE c = "\"" -> [(IF st.part = "key" THEN st ELSE grow) EXCEPT !.inString = TRUE]
               [] c \in {"{", "["} ->
                    [(IF st.depth = 0 THEN st ELSE grow) EXCEPT !.depth = @ + 1]
               [] c \in {"}", "]"} ->
                    IF st.depth = 1
                    THEN [(IF st.part = "val" THEN emit ELSE st) EXCEPT !.depth = 0]
                    ELSE [grow EXCEPT !.depth = @ - 1]
               [] c = ":" /\ st.depth = 1 /\ st.part = "key" -> [st EXCEPT !.part = "val"]
               [] c = "," /\ st.depth = 1 -> emit
               [] OTHER -> grow

\* The scanner run over text[i..hi]; it stops where the text closes more
\* brackets than it opened.
RECURSIVE ScanBlock(_, _, _, _)
ScanBlock(text, st, i, hi) ==
    IF i > hi THEN st
    ELSE LET next == ScanStep(st, text[i])
         IN  IF next.depth < 0 THEN next ELSE ScanBlock(text, next, i + 1, hi)

\* The scanner run from text[i] on, sixteen characters at a time (a long text
\* is read block by block, so that no evaluation nests as deep as the text is
\* long).
RECURSIVE ScanFrom(_, _, _)
ScanFrom(text, st, i) ==
    IF i > Len(text) THEN st
    ELSE LET hi == IF i + 15 < Len(text) THEN i + 15 ELSE Len(text)
             next == ScanBlock(text, st, i, hi)
         IN  IF next.depth < 0 THEN next ELSE ScanFrom(text, next, hi + 1)

\* The members of a JSON object's text, in the order of the text: each key
\* (unquoted) with the text of its value.
Members(text) ==
    ScanFrom(text,
             [depth |-> 0, inString |-> FALSE, escaped |-> FALSE, part |-> "key",
              key |-> <<>>, val |-> <<>>, out |-> <<>>],
             1).out

Keys(members) == [k \in 1..Len(members) |-> members[k].k]

HasKey(members, key) == \E k \in 1..Len(members) : members[k].k = key

ValueOf(members, key) == members[CHOOSE k \in 1..Len(members) : members[k].k = key].v

(***************************************************************************)
(* TokenGenerator.                                                         *)
(***************************************************************************)
\* The texts the code writes as literals.
T_rid == <<"r", "i", "d">>

T_uid == <<"u", "i", "d">>

T_adr == <<"a", "d", "r">>

T_tgs == <<"t", "g", "s">>

T_ups == <<"u", "p", "s">>

T_cid == <<"c", "i", "d">>

T_sub == <<"s", "u", "b">>

T_aud == <<"a", "u", "d">>

T_exp == <<"e", "x", "p">>

T_nbf == <<"n", "b", "f">>

T_internal == <<"i", "n", "t", "e", "r", "n", "a", "l">>

T_alg == <<"a", "l", "g">>

T_kid == <<"k", "i", "d">>

T_connect == <<"c", "o", "n", "n", "e", "c", "t">>

T_EdDSA == <<"E", "d", "D", "S", "A">>

DefaultLifetime == 300

\* The claim set of src/src/index.ts, in the order of its object literal.
claimSet(roomId, userId, options, nbf) ==
    Obj(<< Prop(T_rid, roomId),
           Prop(T_uid, userId),
           Prop(T_cid, Get(options, "customer")),
           Prop(T_sub, Str(T_connect)),
           Prop(T_aud, Get(options, "audience")),
           Prop(T_exp, Num(nbf + Nullish(Get(options, "lifetime"), Num(DefaultLifetime)).n)),
           Prop(T_nbf, Num(nbf)) >>)

\* The claims of src/unnamed/part_000, in the order of its object literal.
\* claims with the lifetime taken as `options?.lifetime || 300`.
claims_lifetimeOr(roomId, userId, options, nbf) ==
    LET given == Get(options, "lifetime")
        lifetime == IF given = Undefined \/ given = Num(0) THEN DefaultLifetime ELSE given.n
    IN  Obj(<< Prop(T_rid, roomId),
               Prop(T_uid, userId),
               Prop(T_adr, Get(options, "address")),
               Prop(T_ups, Get(options, "upstream")),
               Prop(T_cid, Get(options, "customer")),
               Prop(T_sub, Nullish(Get(options, "subject"), Str(T_connect))),
               Prop(T_aud, Get(options, "audience")),
               Prop(T_exp, Num(nbf + lifetime)),
               Prop(T_nbf, Num(nbf)) >>)

claims(roomId, userId, options, nbf) ==
    Obj(<< Prop(T_rid, roomId),
           Prop(T_uid, userId),
           Prop(T_adr, Get(options, "address")),
           Prop(T_ups, Get(options, "upstream")),
           Prop(T_cid, Get(options, "customer")),
           Prop(T_sub, Nullish(Get(options, "subject"), Str(T_connect))),
           Prop(T_aud, Get(options, "audience")),
           Prop(T_exp, Num(nbf + Nullish(Get(options, "lifetime"), Num(DefaultLifetime)).n)),
           Prop(T_nbf, Num(nbf)) >>)

\* The claims of src/src/mod.ts, in the order of its object literal.
\* claims of mod.ts with the tags defaulting to an empty list.
claims_mod_tagsDefault(roomId, userId, options, nbf) ==
    Obj(<< Prop(T_rid, roomId),
           Prop(T_uid, userId),
           Prop(T_adr, Get(options, "address")),
           Prop(T_tgs, Nullish(Get(options, "tags"), Arr(<<>>))),
           Prop(T_ups, Get(options, "upstream")),
           Prop(T_cid, Get(options, "customer")),
           Prop(T_sub, Nullish(Get(options, "subject"), Str(T_connect))),
           Prop(T_aud, Get(options, "audience")),
           Prop(T_exp, Num(nbf + Nullish(Get(options, "lifetime"), Num(DefaultLifetime)).n)),
           Prop(T_nbf, Num(nbf)),
           Prop(T_internal, Get(options, "internal")) >>)

\* claims of mod.ts with nbf written before exp.
claims_mod_nbfFirst(roomId, userId, options, nbf) ==
    Obj(<< Prop(T_rid, roomId),
           Prop(T_uid, userId),
           Prop(T_adr, Get(options, "address")),
           Prop(T_tgs, Get(options, "tags")),
           Prop(T_ups, Get(options, "upstream")),
           Prop(T_cid, Get(options, "customer")),
           Prop(T_sub, Nullish(Get(options, "subject"), Str(T_connect))),
           Prop(T_aud, Get(options, "audience")),
           Prop(T_nbf, Num(nbf)),
           Prop(T_exp, Num(nbf + Nullish(Get(options, "lifetime"), Num(DefaultLifetime)).n)),
           Prop(T_internal, Get(options, "internal")) >>)

claims_mod(roomId, userId, options, nbf) ==
    Obj(<< Prop(T_rid, roomId),
           Prop(T_uid, userId),
           Prop(T_adr, Get(options, "address")),
           Prop(T_tgs, Get(options, "tags")),
           Prop(T_ups, Get(options, "upstream")),
           Prop(T_cid, Get(options, "customer")),
           Prop(T_sub, Nullish(Get(options, "subject"), Str(T_connect))),
           Prop(T_aud, Get(options, "audience")),
           Prop(T_exp, Num(nbf + Nullish(Get(options, "lifetime"), Num(DefaultLifetime)).n)),
           Prop(T_nbf, Num(nbf)),
           Prop(T_internal, Get(options, "internal")) >>)

\* const header = { alg: 'EdDSA', kid: this.keyId }
header(keyId) == Obj(<<Prop(T_alg, Str(T_EdDSA)), Prop(T_kid, Str(keyId))>>)

\* Math.floor(Date.now() / 1000)
UnixTime(dateNow) == dateNow \div 1000

\* src/unnamed/part_000: createToken on the object self at clock dateNow.
\* createToken signing the claims segment alone.
createToken_signsClaims(self, roomId, userId, options, dateNow) ==
    LET nbf == UnixTime(dateNow)
        encoded == base64EncodeObject(claims(roomId, userId, options, nbf))
        body == base64EncodeObject(header(self.keyId)) \o <<".">> \o encoded
        message == TextEncoder_encode(encoded)
        signature == nacl_sign_detached(message, self.secretKey)
    IN  body \o <<".">> \o Base64_fromUint8Array(signature, TRUE)

createToken(self, roomId, userId, options, dateNow) ==
    LET nbf == UnixTime(dateNow)
        body == base64EncodeObject(header(self.keyId)) \o <<".">>
                \o base64EncodeObject(claims(roomId, userId, options, nbf))
        message == TextEncoder_encode(body)
        signature == nacl_sign_detached(message, self.secretKey)
    IN  body \o <<".">> \o Base64_fromUint8Array(signature, TRUE)

\* src/src/index.ts
createToken_index(self, roomId, userId, options, dateNow) ==
    LET nbf == UnixTime(dateNow)
        body == base64EncodeObject(header(self.keyId)) \o <<".">>
                \o base64EncodeObject(claimSet(roomId, userId, options, nbf))
        message == TextEncoder_encode(body)
        signature == nacl_sign_detached(message, self.secretKey)
    IN  body \o <<".">> \o Base64_fromUint8Array(signature, TRUE)

\* src/src/mod.ts, createToken up to its first await: the locals nbf and claims.
createToken_mod_claims(roomId, userId, options, dateNow) ==
    LET nbf == UnixTime(dateNow)
    IN  [nbf |-> nbf, claims |-> claims_mod(roomId, userId, options, nbf)]

\* src/src/mod.ts, after await this.keyId: header and body.
createToken_mod_body(keyId, frame) ==
    base64EncodeObject_mod(header(keyId)) \o <<".">> \o base64EncodeObject_mod(frame.claims)

\* src/src/mod.ts, after await this.secretKey: the message handed to signAsync.
createToken_mod_signature(body, secretKey) ==
    ed25519_sign(TextEncoder_encode(body), secretKey)

\* src/src/mod.ts, after the await of signAsync: the token returned.
createToken_mod_token(body, signature) ==
    body \o <<".">> \o encodeBase64Url(signature)

\* Credentials: an access key text, a KeyPair, or (mod.ts) a secret key.
KeyText(text) == [t |-> "string", s |-> text]

KeyPair(publicKey, secretKey) ==
    [t |-> "keyPair", publicKey |-> publicKey, secretKey |-> secretKey]

SecretKey(key) == [t |-> "secretKey", key |-> key]

Threw(error) == [status |-> "threw", error |-> error]

Object(keyId, secretKey) == [status |-> "object", keyId |-> keyId, secretKey |-> secretKey]

\* src/unnamed/part_000: new TokenGenerator(credentials) throws or yields an object.
TokenGenerator(credentials) ==
    LET loaded == IF credentials.t = "string" THEN loadAccessKey(credentials.s)
                  ELSE [ok |-> TRUE, value |-> credentials]
    IN  IF ~loaded.ok THEN Threw(loaded.error)
        ELSE Object(getKeyId(loaded.value.publicKey), loaded.value.secretKey)

\* src/src/index.ts
TokenGenerator_index(credentials) ==
    LET loaded == IF credentials.t = "string" THEN loadApiKey(credentials.s)
                  ELSE [ok |-> TRUE, value |-> credentials]
    IN  IF ~loaded.ok THEN Threw(loaded.error)
        ELSE Object(getKeyId(loaded.value.publicKey), loaded.value.secretKey)

\* Promises: pending (value holds what the suspended body will deliver),
\* fulfilled with a value, or rejected with a reason.
Pending(value) == [state |-> "pending", value |-> value, reason |-> ""]

Fulfilled(value) == [state |-> "fulfilled", value |-> value, reason |-> ""]

Rejected(reason) == [state |-> "rejected", value |-> <<>>, reason |-> reason]

\* src/src/mod.ts: the constructor runs two async arrow functions and returns.
\* The first throws inside loadAccessKey (its promise is rejected), suspends at
\* the await of the promise loadAccessKey returned, or returns the secret key
\* it was given; the second suspends at await secretKey.
TokenGenerator_mod(credentials) ==
    LET secretKey ==
            IF credentials.t = "string"
            THEN LET loaded == loadAccessKey_mod(credentials.s)
                 IN  IF loaded.ok THEN Pending(loaded.value) ELSE Rejected(loaded.error)
            ELSE Fulfilled(credentials.key)
    IN  Object(Pending(<<>>), secretKey)

\* The async arrow function of secretKey resumes and returns.
secretKey_settled(self) == Fulfilled(self.secretKey.value)

\* The async arrow function of keyId resumes: getKeyId of the secret key, or
\* the rejection of secretKey passed on.
keyId_settled(self) ==
    IF self.secretKey.state = "rejected" THEN Rejected(self.secretKey.reason)
    ELSE Fulfilled(getKeyId_mod(self.secretKey.value))

(***************************************************************************)
(* The values a program hands to the library.                              *)
(***************************************************************************)
\* The access key of the tests: "AcIbjUrHA8EV62TAGYcwDtHhQ8wN3lXmcKtFtN/SvdMA".
TestAccessKey == B64Encode(<<1>> \o TestSeed, B64Std, TRUE)

\* Its version byte changed; its last byte dropped (the crc8 of what is left
\* is still 0); its checksum byte changed.
BadVersionKey == B64Encode(<<2>> \o TestSeed, B64Std, TRUE)

ShortKey == B64Encode(<<1>> \o SubSeq(TestSeed, 1, 31), B64Std, TRUE)

BadChecksumKey == B64Encode(<<1>> \o [TestSeed EXCEPT ![32] = 1], B64Std, TRUE)

InvalidKeys == {BadVersionKey, ShortKey, BadChecksumKey}

\* Another well-formed seed.
OtherSeed ==
    LET r == [k \in 1..31 |-> 7 * k]
    IN  r \o <<crc8(r)>>

OtherAccessKey == B64Encode(<<1>> \o OtherSeed, B64Std, TRUE)

OtherKeyPair ==
    LET pair == nacl_sign_keyPair_fromSeed(OtherSeed)
    IN  KeyPair(pair.publicKey, pair.secretKey)

\* A KeyPair whose public key is not the one of its secret key.
MixedKeyPair == KeyPair(TestPublicKey, OtherKeyPair.secretKey)

CredentialsOf(variant) ==
    {KeyText(k) : k \in {TestAccessKey} \cup InvalidKeys}
    \cup (CASE variant = "mod" -> {SecretKey(OtherSeed)}
            [] variant = "sync" -> {OtherKeyPair, MixedKeyPair}
            [] OTHER -> {OtherKeyPair})

OptionValue(name) ==
    CASE name = "customer" -> Str(<<"a", "c", "m", "e">>)
      [] name = "audience" -> Str(<<"s", "f", "u">>)
      [] name = "subject" -> Arr(<<Str(<<"c", "o", "n", "n", "e", "c", "t">>), Str(<<"r", "o", "o", "m", "u", "p", "d", "a", "t", "e">>)>>)
      [] name = "address" -> Str(<<"h", ".", "i", "o", ":", "4", "4", "3", "3">>)
      [] name = "upstream" -> Str(<<"u", "p", ".", "i", "o">>)
      [] name = "tags" -> Arr(<<Str(<<"v", "i", "p">>), Str(<<"e", "u">>)>>)
      [] name = "internal" -> Obj(<<Prop(<<"n", "b", "f">>, Num(7)), Prop(<<"x">>, Str(<<"}", ",", "\"", "a", "u", "d", "\"", ":", "\"", "y", "\"">>))>>)
      [] OTHER -> Num(60)

\* The option names of each TokenOptions interface, in the order of its text:
\* those that become a claim of their own when supplied, and all of them.
OptionalNames(variant) ==
    CASE variant = "index" -> <<"customer", "audience">>
      [] variant = "sync" -> <<"customer", "audience", "address", "upstream">>
      [] OTHER -> <<"customer", "audience", "address", "tags", "upstream", "internal">>

OptionNames(variant) ==
    CASE variant = "index" -> <<"customer", "audience", "lifetime">>
      [] variant = "sync" ->
            <<"customer", "audience", "subject", "address", "upstream", "lifetime">>
      [] OTHER ->
            <<"customer", "audience", "subject", "address", "tags", "upstream",
              "lifetime", "internal">>

Reverse(s) == [k \in 1..Len(s) |-> s[Len(s) + 1 - k]]

\* An options object with the given names, in the given order.
OptionsWith(names) == Obj([k \in 1..Len(names) |-> Prop(names[k], OptionValue(names[k]))])

\* The options objects of a variant: no object; every choice of the optional
\* names, in the order of the interface; every such choice together with the
\* subject and the lifetime, in the opposite order; and a lifetime of 0.
OptionsOf(variant) ==
    LET all == OptionNames(variant)
        optional == OptionalNames(variant)
        rest == Range(all) \ Range(optional)
    IN  {Undefined}
        \cup {OptionsWith(SelectSeq(all, LAMBDA n : n \in S)) :
                S \in SUBSET Range(optional)}
        \cup {OptionsWith(Reverse(SelectSeq(all, LAMBDA n : n \in S \cup rest))) :
                S \in SUBSET Range(optional)}
        \cup {Obj(<<Prop("lifetime", Num(0))>>),
              Obj(<<Prop("lifetime", Num(0)), Prop("audience", Str(<<"g", "w">>))>>)}

Room == Str(<<"t", "e", "s", "t", "-", "r", "o", "o", "m">>)

Rooms == Arr(<<Str(<<"t", "e", "s", "t", "-", "r", "o", "o", "m", "1">>), Str(<<"t", "e", "s", "t", "-", "r", "o", "o", "m", "2">>)>>)

User == Str(<<"t", "e", "s", "t", "-", "u", "s", "e", "r">>)

QuotedUser == Str(<<"j", "\"", "o", "\\", "e">>)

Args(roomId, userId, options) == [roomId |-> roomId, userId |-> userId, options |-> options]

\* Every options object with one room and user, and a few with a list of
\* rooms (part_000 and mod.ts) and a user id that needs escaping.
ArgsOf(variant) ==
    {Args(Room, User, o) : o \in OptionsOf(variant)}
    \cup {Args(Room, QuotedUser, o) : o \in {Undefined, OptionsWith(OptionNames(variant))}}
    \cup (IF variant = "index" THEN {}
          ELSE {Args(Rooms, User, o) : o \in {Undefined, OptionsWith(OptionNames(variant))}})

FewArgs(variant) ==
    {Args(Room, User, Undefined),
     Args(IF variant = "index" THEN Room ELSE Rooms, QuotedUser,
          OptionsWith(<<"lifetime", "audience">>))}

(***************************************************************************)
(* The machine: a program constructs TokenGenerator objects and calls      *)
(* createToken on them while the clock runs.  With part_000 and index.ts   *)
(* a constructor and a createToken call are one step each; with mod.ts the *)
(* async functions run up to an await and resume in later steps.           *)
(***************************************************************************)
MaxGen == 2

MaxCalls == 2

MaxTicks == 1

FirstInstant == 1999

NoProgram ==
    [variant |-> "none", credentials |-> {}, args |-> {}, objects |-> {},
     calls |-> 0, start |-> 0, ticks |-> 0]

NotConstructed == [credentials |-> <<>>, result |-> [status |-> "none"]]

Frame(nbf, claimsObject, body, signature) ==
    [nbf |-> nbf, claims |-> claimsObject, body |-> body, signature |-> signature]

NoFrame == Frame(0, <<>>, <<>>, <<>>)

Construct(i, c) ==
    /\ gen[i].result.status = "none"
    /\ gen' = [gen EXCEPT ![i] =
                 [credentials |-> c,
                  result |-> CASE scn.variant = "index" -> TokenGenerator_index(c)
                               [] scn.variant = "sync" -> TokenGenerator(c)
                               [] OTHER -> TokenGenerator_mod(c)]]
    /\ UNCHANGED <<op, scn, now, calls>>

SettleSecretKey(i) ==
    /\ scn.variant = "mod"
    /\ gen[i].result.status = "object"
    /\ gen[i].result.secretKey.state = "pending"
    /\ gen' = [gen EXCEPT ![i].result.secretKey = secretKey_settled(gen[i].result)]
    /\ UNCHANGED <<op, scn, now, calls>>

SettleKeyId(i) ==
    /\ scn.variant = "mod"
    /\ gen[i].result.status = "object"
    /\ gen[i].result.keyId.state = "pending"
    /\ gen[i].result.secretKey.state # "pending"
    /\ gen' = [gen EXCEPT ![i].result.keyId = keyId_settled(gen[i].result)]
    /\ UNCHANGED <<op, scn, now, calls>>

\* CreateToken with the clock read once per object: a later call on an object
\* takes the reading of an earlier one.
CreateToken_cachedClock(i, a) ==
    /\ scn.variant \in {"index", "sync"}
    /\ gen[i].result.status = "object"
    /\ Cardinality(calls) < scn.calls
    /\ LET earlier == {c \in calls : c.gen = i}
           read == IF earlier = {} THEN now ELSE (CHOOSE c \in earlier : TRUE).at
       IN  calls' = calls \cup
             {[gen |-> i, args |-> a, at |-> now, pc |-> "returned", frame |-> NoFrame,
               error |-> "", returnedAt |-> now,
               result |-> IF scn.variant = "index"
                          THEN createToken_index(gen[i].result, a.roomId, a.userId, a.options, read)
                          ELSE createToken(gen[i].result, a.roomId, a.userId, a.options, read)]}
    /\ UNCHANGED <<op, scn, now, gen>>

\* CreateToken keeping only the seed half of the secret key after signing.
CreateToken_rekey(i, a) ==
    /\ scn.variant \in {"index", "sync"}
    /\ gen[i].result.status = "object"
    /\ Cardinality(calls) < scn.calls
    /\ calls' = calls \cup
         {[gen |-> i, args |-> a, at |-> now, pc |-> "returned", frame |-> NoFrame,
           error |-> "", returnedAt |-> now,
           result |-> IF scn.variant = "index"
                      THEN createToken_index(gen[i].result, a.roomId, a.userId, a.options, now)
                      ELSE createToken(gen[i].result, a.roomId, a.userId, a.options, now)]}
    /\ gen' = [gen EXCEPT ![i].result.secretKey = SubSeq(@, 1, 32)]
    /\ UNCHANGED <<op, scn, now>>

CreateToken(i, a) ==
    /\ scn.variant \in {"index", "sync"}
    /\ gen[i].result.status = "object"
    /\ Cardinality(calls) < scn.calls
    /\ calls' = calls \cup
         {[gen |-> i, args |-> a, at |-> now, pc |-> "returned", frame |-> NoFrame,
           error |-> "", returnedAt |-> now,
           result |-> IF scn.variant = "index"
                      THEN createToken_index(gen[i].result, a.roomId, a.userId, a.options, now)
                      ELSE createToken(gen[i].result, a.roomId, a.userId, a.options, now)]}
    /\ UNCHANGED <<op, scn, now, gen>>

CreateTokenStart(i, a) ==
    /\ scn.variant = "mod"
    /\ gen[i].result.status = "object"
    /\ Cardinality(calls) < scn.calls
    /\ LET locals == createToken_mod_claims(a.roomId, a.userId, a.options, now)
       IN  calls' = calls \cup
             {[gen |-> i, args |-> a, at |-> now, pc |-> "awaitKeyId",
               frame |-> Frame(locals.nbf, locals.claims, <<>>, <<>>), error |-> "",
               returnedAt |-> now, result |-> <<>>]}
    /\ UNCHANGED <<op, scn, now, gen>>

\* CreateTokenKeyId with the claims kept in one place shared by the calls: a
\* call resuming builds its body from the claims of whichever call is waiting.
CreateTokenKeyId_sharedClaims(c) ==
    /\ c.pc = "awaitKeyId"
    /\ gen[c.gen].result.keyId.state # "pending"
    /\ LET keyId == gen[c.gen].result.keyId
           waiting == CHOOSE d \in calls : d.pc = "awaitKeyId"
       IN  calls' = (calls \ {c}) \cup
             {IF keyId.state = "rejected"
              THEN [c EXCEPT !.pc = "rejected", !.error = keyId.reason]
              ELSE [c EXCEPT !.pc = "awaitSecretKey",
                             !.frame.body = createToken_mod_body(keyId.value, waiting.frame)]}
    /\ UNCHANGED <<op, scn, now, gen>>

CreateTokenKeyId(c) ==
    /\ c.pc = "awaitKeyId"
    /\ gen[c.gen].result.keyId.state # "pending"
    /\ LET keyId == gen[c.gen].result.keyId
       IN  calls' = (calls \ {c}) \cup
             {IF keyId.state = "rejected"
              THEN [c EXCEPT !.pc = "rejected", !.error = keyId.reason]
              ELSE [c EXCEPT !.pc = "awaitSecretKey",
                             !.frame.body = createToken_mod_body(keyId.value, c.frame)]}
    /\ UNCHANGED <<op, scn, now, gen>>

CreateTokenSecretKey(c) ==
    /\ c.pc = "awaitSecretKey"
    /\ gen[c.gen].result.secretKey.state # "pending"
    /\ LET secretKey == gen[c.gen].result.secretKey
       IN  calls' = (calls \ {c}) \cup
             {IF secretKey.state = "rejected"
              THEN [c EXCEPT !.pc = "rejected", !.error = secretKey.reason]
              ELSE [c EXCEPT !.pc = "awaitSign",
                             !.frame.signature =
                                 createToken_mod_signature(c.frame.body, secretKey.value)]}
    /\ UNCHANGED <<op, scn, now, gen>>

CreateTokenSign(c) ==
    /\ c.pc = "awaitSign"
    /\ calls' = (calls \ {c}) \cup
         {[c EXCEPT !.pc = "returned",
                    !.returnedAt = now,
                    !.result = createToken_mod_token(c.frame.body, c.frame.signature)]}
    /\ UNCHANGED <<op, scn, now, gen>>

Tick ==
    /\ now < scn.start + scn.ticks
    /\ now' = now + 1
    /\ UNCHANGED <<op, scn, gen, calls>>

Next ==
    \/ \E i \in scn.objects, c \in scn.credentials : Construct(i, c)
    \/ \E i \in scn.objects : SettleSecretKey(i)
    \/ \E i \in scn.objects : SettleKeyId(i)
    \/ \E i \in scn.objects, a \in scn.args : CreateToken(i, a)
    \/ \E i \in scn.objects, a \in scn.args : CreateTokenStart(i, a)
    \/ \E c \in calls : CreateTokenKeyId(c)
    \/ \E c \in calls : CreateTokenSecretKey(c)
    \/ \E c \in calls : CreateTokenSign(c)
    \/ Tick

Started(program) ==
    /\ op = [fn |-> "none", variant |-> "none", input |-> <<>>, done |-> FALSE,
             output |-> <<>>]
    /\ scn = program
    /\ now = program.start
    /\ gen = [i \in program.objects |-> NotConstructed]
    /\ calls = {}

\* Programs that construct objects from the test key and from one more
\* credential, valid or not, and call createToken with a few arguments.
Programs ==
    UNION {{[variant |-> v, credentials |-> {KeyText(TestAccessKey), c},
             args |-> FewArgs(v), objects |-> 1..MaxGen, calls |-> MaxCalls,
             start |-> FirstInstant, ticks |-> MaxTicks] : c \in CredentialsOf(v)} :
           v \in Variants}

Init == \E program \in Programs : Started(program)

Spec == Init /\ [][Next]_vars

\* Programs that construct one object from the test key and call createToken
\* once, with any of the arguments.
TokenPrograms ==
    UNION {{[variant |-> v, credentials |-> {KeyText(TestAccessKey)}, args |-> {a},
             objects |-> {1}, calls |-> 1, start |-> FirstInstant, ticks |-> MaxTicks] :
                a \in ArgsOf(v)} :
           v \in Variants}

InitTokens == \E program \in TokenPrograms : Started(program)

SpecTokens == InitTokens /\ [][Next]_vars

\* Programs that construct one object from the test key and call createToken
\* on it several times while the clock runs.
ClockPrograms ==
    {[variant |-> v, credentials |-> {KeyText(TestAccessKey)}, args |-> FewArgs(v),
      objects |-> {1}, calls |-> MaxCalls, start |-> FirstInstant, ticks |-> MaxTicks] :
        v \in Variants}

InitClock == \E program \in ClockPrograms : Started(program)

SpecClock == InitClock /\ [][Next]_vars

\* Programs that import mod.ts, construct several objects from different keys
\* and call createToken on them: the calls suspend at their awaits and resume
\* in any order, among themselves and with the constructors' async arrows.
AsyncPrograms ==
    {[variant |-> "mod", credentials |-> {KeyText(TestAccessKey), c},
      args |-> FewArgs("mod"), objects |-> 1..MaxGen, calls |-> MaxCalls,
      start |-> FirstInstant, ticks |-> MaxTicks] :
        c \in {SecretKey(OtherSeed), KeyText(BadChecksumKey)}}

InitAsync == \E program \in AsyncPrograms : Started(program)

NextAsync ==
    \/ \E i \in scn.objects, c \in scn.credentials : Construct(i, c)
    \/ \E i \in scn.objects : SettleSecretKey(i)
    \/ \E i \in scn.objects : SettleKeyId(i)
    \/ \E i \in scn.objects, a \in scn.args : CreateTokenStart(i, a)
    \/ \E c \in calls : CreateTokenKeyId(c)
    \/ \E c \in calls : CreateTokenSecretKey(c)
    \/ \E c \in calls : CreateTokenSign(c)
    \/ Tick

SpecAsync == InitAsync /\ [][NextAsync]_vars

(***************************************************************************)
(* The free functions, applied to inputs drawn from bounded families.      *)
(* op holds one call: its function, the variant of the library, its input  *)
(* and, once the call has run, its output.                                 *)
(***************************************************************************)
FillBytes == {0, 165, 255}

ProbeBytes == {0, 1, 128, 255}

\* What the random source returns: RandomBytes bytes.
RandomValues ==
    {[k \in 1..RandomBytes |-> IF k = i THEN v ELSE p] :
        p \in FillBytes, i \in 1..RandomBytes, v \in ProbeBytes}
    \cup {SubSeq(TestSeed, 1, RandomBytes)}

\* Byte strings near a well-formed key: the key, and the key with its version,
\* its length, its checksum or a seed byte changed.
NearKeys(b) ==
    { b,
      [b EXCEPT ![1] = 0],
      [b EXCEPT ![1] = 2],
      SubSeq(b, 1, Len(b) - 1),
      b \o <<0>>,
      b \o <<b[Len(b)]>>,
      [b EXCEPT ![Len(b)] = (b[Len(b)] + 1) % 256],
      [b EXCEPT ![2] = BitXor[b[2], 16]],
      SubSeq(b, 2, Len(b)) }

KeySeeds == {[k \in 1..RandomBytes |-> IF k = i THEN v ELSE p] :
                p \in {0, 165}, i \in {1, 16, RandomBytes}, v \in {1, 255}}
            \cup {SubSeq(TestSeed, 1, RandomBytes)}

LoadBytes ==
    UNION {NearKeys(<<1>> \o r \o <<crc8(r)>>) : r \in KeySeeds}
    \cup UNION {NearKeys(Base64_toUint8Array(generateApiKey(r))) : r \in KeySeeds}
    \cup {<<>>, <<1>>, <<1, 172>>, Zeroes(KeyBytes)}

\* The texts handed to the load functions: padded standard Base64, unpadded
\* URL-safe Base64, and text that is not Base64.
LoadTexts ==
    {B64Encode(b, B64Std, TRUE) : b \in LoadBytes}
    \cup {B64Encode(b, B64Url, FALSE) : b \in LoadBytes}
    \cup {<<"*", "*", "*", "*">>}

PublicKeys ==
    {[k \in 1..32 |-> (a * k + b) % 256] : a \in 0..7, b \in {0, 1, 77, 255}}
    \cup {TestPublicKey}

SecretSeeds == {r \o <<crc8(r)>> : r \in KeySeeds} \cup {TestSeed}

Call(fn, variant, input) ==
    [fn |-> fn, variant |-> variant, input |-> input, done |-> FALSE, output |-> <<>>]

Idle == Call("none", "none", <<>>)

\* The byte sequences crc8 is applied to: none, every single byte, pairs of
\* bytes with their high and low bits set or clear, the ASCII digits 1..9 and
\* the seeds.
Crc8Inputs ==
    {<<>>, [k \in 1..9 |-> 48 + k]}
    \cup {<<b>> : b \in 0..255}
    \cup {<<a, b>> : a, b \in {0, 1, 49, 127, 128, 206, 255}}
    \cup KeySeeds
    \cup SecretSeeds

\* Keys the load functions accept, and the places of one bit in their seed
\* and checksum bytes (bytes 1..32 of the key).
AcceptedKeys ==
    {<<1>> \o TestSeed, <<1>> \o OtherSeed}
    \cup {<<1>> \o r \o <<crc8(r)>> : r \in {[k \in 1..RandomBytes |-> 255]}}
    \cup {Base64_toUint8Array(generateApiKey([k \in 1..RandomBytes |-> 165]))}

FlippedKeys ==
    {[key |-> b, byte |-> j, bit |-> n] : b \in AcceptedKeys, j \in 1..32, n \in 0..7}

Pow2(n) == 2 ^ n

\* The key with one bit of one byte inverted (the byte counted from 0).
Flip(f) == [f.key EXCEPT ![f.byte + 1] = BitXor[@, Pow2(f.bit)]]

PureCalls ==
    {Call("generate", v, r) : v \in Variants, r \in RandomValues}
    \cup {Call("crc8", v, d) : v \in Variants, d \in Crc8Inputs}
    \cup {Call("loadFlipped", v, f) : v \in Variants, f \in FlippedKeys}
    \cup {Call("load", v, t) : v \in Variants, t \in LoadTexts}
    \cup {Call("getKeyId", v, k) : v \in {"index", "sync"}, k \in PublicKeys}
    \cup {Call("getKeyId", "mod", k) : k \in SecretSeeds}

Generate ==
    /\ op.fn = "generate" /\ ~op.done
    /\ op' = [op EXCEPT !.done = TRUE,
                        !.output = CASE op.variant = "index" -> generateApiKey(op.input)
                                     [] op.variant = "sync" -> generateAccessKey(op.input)
                                     [] OTHER -> generateAccessKey_mod(op.input)]
    /\ UNCHANGED <<scn, now, gen, calls>>

Load ==
    /\ op.fn = "load" /\ ~op.done
    /\ op' = [op EXCEPT !.done = TRUE,
                        !.output = CASE op.variant = "index" -> loadApiKey(op.input)
                                     [] op.variant = "sync" -> loadAccessKey(op.input)
                                     [] OTHER -> loadAccessKey_mod(op.input)]
    /\ UNCHANGED <<scn, now, gen, calls>>

GetKeyId ==
    /\ op.fn = "getKeyId" /\ ~op.done
    /\ op' = [op EXCEPT !.done = TRUE,
                        !.output = IF op.variant = "mod" THEN getKeyId_mod(op.input)
                                   ELSE getKeyId(op.input)]
    /\ UNCHANGED <<scn, now, gen, calls>>

Crc8 ==
    /\ op.fn = "crc8" /\ ~op.done
    /\ op' = [op EXCEPT !.done = TRUE, !.output = crc8(op.input)]
    /\ UNCHANGED <<scn, now, gen, calls>>

\* A load function applied to the text of a key with one bit inverted.
LoadFlipped ==
    /\ op.fn = "loadFlipped" /\ ~op.done
    /\ LET text == B64Encode(Flip(op.input), B64Std, TRUE)
       IN  op' = [op EXCEPT !.done = TRUE,
                            !.output = CASE op.variant = "index" -> loadApiKey(text)
                                         [] op.variant = "sync" -> loadAccessKey(text)
                                         [] OTHER -> loadAccessKey_mod(text)]
    /\ UNCHANGED <<scn, now, gen, calls>>

InitPure ==
    /\ op \in PureCalls
    /\ scn = NoProgram
    /\ now = 0
    /\ gen = <<>>
    /\ calls = {}

NextPure == Generate \/ Load \/ GetKeyId \/ Crc8 \/ LoadFlipped

SpecPure == InitPure /\ [][NextPure]_vars

(***************************************************************************)
(* Properties of the free functions, under SpecPure.                       *)
(***************************************************************************)
LoadOf(variant, text) ==
    CASE variant = "index" -> loadApiKey(text)
      [] variant = "sync" -> loadAccessKey(text)
      [] OTHER -> loadAccessKey_mod(text)

\* The seed a successful load took: the seed half of tweetnacl's secret key,
\* or the seed mod.ts returns.
SeedOf(variant, value) ==
    IF variant = "mod" THEN value ELSE SubSeq(value.secretKey, 1, 32)

\* Whether the variant's Base64 decoder yields bytes for the text.
Decodes(variant, text) ==
    IF variant = "mod" THEN decodeBase64(text).ok ELSE Base64_isValid(text)

WellFormedKey(b) ==
    /\ Len(b) = 33
    /\ b[1] = 1
    /\ crc8(SubSeq(b, 2, 33)) = 0

InvalidKeyErrors == {"invalid access key", "invalid api key"}

\* C1: with b the bytes the input decodes to, load succeeds exactly when b has
\* 33 bytes, b[0] = 0x01 and crc8(b[1..32]) = 0; then its seed is b[1..32], the
\* checksum byte being the last seed byte; otherwise it raises the invalid-key
\* error and returns nothing.
C1_LoadAcceptsExactlyWellFormedKeys ==
    (op.fn = "load" /\ op.done /\ Decodes(op.variant, op.input)) =>
        LET b == B64Decode(op.input)
        IN  /\ op.output.ok <=> WellFormedKey(b)
            /\ op.output.ok =>
                 /\ SeedOf(op.variant, op.output.value) = SubSeq(b, 2, 33)
                 /\ SeedOf(op.variant, op.output.value)[32] = b[33]
            /\ ~op.output.ok =>
                 /\ op.output.error \in InvalidKeyErrors
                 /\ "value" \notin DOMAIN op.output

\* A key of 33 bytes was loaded by mod.ts and its seed ends in the checksum byte.
C1_Witness ==
    /\ op.fn = "load" /\ op.done /\ op.variant = "mod"
    /\ op.output.ok
    /\ Len(op.output.value) = 32
    /\ B64Decode(op.input)[33] # 0
    /\ op.output.value[32] = B64Decode(op.input)[33]

\* C3: the key each generator returns is accepted by the load function of its
\* file, and the seed taken from it has 32 bytes, the last of which is the crc8
\* of the 31 before it.
C3_GeneratedKeyLoads ==
    (op.fn = "generate" /\ op.done) =>
        LET loaded == LoadOf(op.variant, op.output)
        IN  /\ loaded.ok
            /\ LET seed == SeedOf(op.variant, loaded.value)
               IN  /\ Len(seed) = 32
                   /\ seed[32] = crc8(SubSeq(seed, 1, 31))

\* generateApiKey ran on random bytes whose last byte is not zero.
C3_Witness ==
    /\ op.fn = "generate" /\ op.done /\ op.variant = "index"
    /\ op.input[RandomBytes] # 0
    /\ loadApiKey(op.output).ok

\* C4: every generator returns the Base64 text of 0x01, the 31 random bytes
\* unchanged, and the crc8 of those 31 bytes.
C4_GeneratedKeyLayout ==
    (op.fn = "generate" /\ op.done) =>
        op.output = B64Encode(<<1>> \o op.input \o <<crc8(op.input)>>, B64Std, TRUE)

\* The XOR of the eight digest bytes h[j], h[8+j], ..., h[56+j] (j from 0).
Fold8(h, j) ==
    LET c(n) == h[8 * n + j + 1]
    IN  BitXor[c(0), BitXor[c(1), BitXor[c(2), BitXor[c(3),
        BitXor[c(4), BitXor[c(5), BitXor[c(6), c(7)]]]]]]]

\* C8: getKeyId returns the Base64 text of nine bytes: 0x01, then for j in 0..7
\* the XOR of the digest bytes h[j], h[8+j], ..., h[56+j] of the public key.
C8_KeyIdIsFoldedDigest ==
    (op.fn = "getKeyId" /\ op.done) =>
        LET publicKey == IF op.variant = "mod" THEN ed25519_getPublicKey(op.input)
                         ELSE op.input
            h == sha512(publicKey)
        IN  /\ Len(h) = 64
            /\ op.output = B64Encode(<<1>> \o [j \in 1..8 |-> Fold8(h, j - 1)],
                                     B64Std, TRUE)
            /\ Len(op.output) = 12

\* The key id the tests record for the test public key: "AQ7aVmK+pI1l".
C8_Witness ==
    /\ op.fn = "getKeyId" /\ op.done
    /\ op.input = TestPublicKey
    /\ op.output = <<"A", "Q", "7", "a", "V", "m", "K", "+", "p", "I", "1", "l">>

(***************************************************************************)
(* The tokens, read back: a returned token is split at its dots and its    *)
(* segments are decoded.                                                   *)
(***************************************************************************)
Returned == {c \in calls : c.pc = "returned"}

HeaderOf(c) == Members(TextDecoder_decode(B64Decode(Segments(c.result)[1])))

ClaimsOf(c) == Members(TextDecoder_decode(B64Decode(Segments(c.result)[2])))

Supplied(c, name) == Get(c.args.options, name) # Undefined

\* The key id and the seed the object of the call holds.
KeyIdOf(i) == IF scn.variant = "mod" THEN gen[i].result.keyId.value ELSE gen[i].result.keyId

SigningSeedOf(i) ==
    IF scn.variant = "mod" THEN gen[i].result.secretKey.value
    ELSE SubSeq(gen[i].result.secretKey, 1, 32)

InvalidKeyText(credentials) == credentials.t = "string" /\ credentials.s \in InvalidKeys

\* C2: constructing from an invalid access-key string throws the invalid-key
\* error out of the constructor, so that no object exists on which createToken
\* is or can be called.
C2_InvalidKeyThrowsAtConstruction ==
    \A i \in DOMAIN gen :
        (gen[i].result.status # "none" /\ InvalidKeyText(gen[i].credentials)) =>
            /\ gen[i].result.status = "threw"
            /\ gen[i].result.error \in InvalidKeyErrors
            /\ \A c \in calls : c.gen # i

\* C5: the claims of a returned token carry exp = nbf + lifetime, the lifetime
\* being the option when supplied (0 included) and 300 when absent; sub is the
\* subject option when supplied and "connect" otherwise; rid and uid are the
\* roomId and userId arguments.
C5_ClaimsCarryLifetimeSubjectRoomUser ==
    \A c \in Returned :
        LET m == ClaimsOf(c)
            lifetime == IF Supplied(c, "lifetime") THEN Get(c.args.options, "lifetime").n
                        ELSE 300
        IN  /\ \E n \in 0..(now \div 1000) :
                  /\ ValueOf(m, T_nbf) = NatText[n]
                  /\ ValueOf(m, T_exp) = NatText[n + lifetime]
            /\ ValueOf(m, T_sub) =
                  IF Supplied(c, "subject")
                  THEN JSON_stringify(Get(c.args.options, "subject"))
                  ELSE <<"\"", "c", "o", "n", "n", "e", "c", "t", "\"">>
            /\ ValueOf(m, T_rid) = JSON_stringify(c.args.roomId)
            /\ ValueOf(m, T_uid) = JSON_stringify(c.args.userId)

\* A token made with a lifetime of 0 was returned and its exp equals its nbf.
C5_Witness ==
    \E c \in Returned :
        /\ Get(c.args.options, "lifetime") = Num(0)
        /\ ValueOf(ClaimsOf(c), T_exp) = ValueOf(ClaimsOf(c), T_nbf)

OptionalClaims ==
    {[option |-> "customer", claim |-> T_cid], [option |-> "audience", claim |-> T_aud],
     [option |-> "address", claim |-> T_adr], [option |-> "upstream", claim |-> T_ups],
     [option |-> "tags", claim |-> T_tgs], [option |-> "internal", claim |-> T_internal]}

\* C6: in the serialized claims of a returned token each optional claim (cid,
\* aud, adr, ups, tgs, internal) is a key exactly when its option was
\* supplied, and rid, uid, sub, exp and nbf are always keys.
C6_OptionalClaimIffSupplied ==
    \A c \in Returned :
        LET m == ClaimsOf(c)
        IN  /\ \A p \in OptionalClaims : HasKey(m, p.claim) <=> Supplied(c, p.option)
            /\ \A k \in {T_rid, T_uid, T_sub, T_exp, T_nbf} : HasKey(m, k)

\* A token of mod.ts made with some of the optional options and not the others.
C6_Witness ==
    \E c \in Returned :
        /\ scn.variant = "mod"
        /\ Supplied(c, "address") /\ Supplied(c, "internal")
        /\ ~Supplied(c, "tags") /\ ~Supplied(c, "customer")
        /\ HasKey(ClaimsOf(c), T_adr) /\ ~HasKey(ClaimsOf(c), T_tgs)

\* C7: a returned token is three segments joined by dots, each in unpadded
\* base64url; the first decodes to {alg: "EdDSA", kid: the key id of the
\* object}, and the third decodes to the 64-byte signature, under the secret
\* key of the object, of the bytes of the first two segments joined by a dot.
C7_TokenIsHeaderClaimsSignature ==
    \A c \in Returned :
        LET parts == Segments(c.result)
            h == HeaderOf(c)
            signature == B64Decode(parts[3])
        IN  /\ Len(parts) = 3
            /\ \A k \in 1..3 : Range(parts[k]) \subseteq Range(B64Url) \ {"="}
            /\ Keys(h) = <<T_alg, T_kid>>
            /\ ValueOf(h, T_alg) = <<"\"", "E", "d", "D", "S", "A", "\"">>
            /\ ValueOf(h, T_kid) = <<"\"">> \o KeyIdOf(c.gen) \o <<"\"">>
            /\ Len(signature) = 64
            /\ signature = ed25519_sign(TextEncoder_encode(parts[1] \o <<".">> \o parts[2]),
                                        SigningSeedOf(c.gen))

\* A token of mod.ts was returned whose kid is the key id of the test key.
C7_Witness ==
    \E c \in Returned :
        /\ scn.variant = "mod"
        /\ Len(Segments(c.result)) = 3
        /\ ValueOf(HeaderOf(c), T_kid) = <<"\"", "A", "Q", "7", "a", "V", "m", "K", "+", "p", "I", "1", "l", "\"">>

C9_SameKey ==
    \A c \in Returned :
        LET parts == Segments(c.result)
        IN  /\ ValueOf(HeaderOf(c), T_kid) = <<"\"">> \o KeyIdOf(c.gen) \o <<"\"">>
            /\ B64Decode(parts[3]) =
                  ed25519_sign(TextEncoder_encode(parts[1] \o <<".">> \o parts[2]),
                               SigningSeedOf(c.gen))

C9_FieldsKept ==
    /\ calls' # calls => gen' = gen
    /\ \A i \in DOMAIN gen :
          (gen[i].result.status = "object" /\ scn.variant # "mod") =>
              gen'[i].result = gen[i].result
    /\ \A i \in DOMAIN gen :
          (gen[i].result.status = "object" /\ scn.variant = "mod") =>
              /\ gen'[i].result.status = "object"
              /\ gen[i].result.keyId.state = "fulfilled" =>
                    gen'[i].result.keyId = gen[i].result.keyId
              /\ gen'[i].result.secretKey.value = gen[i].result.secretKey.value

\* C9: once an object is constructed no step of a createToken call changes its
\* key id or secret key, the fields keep their values for good, and so every
\* token an object returned carries the object's key id as kid and is signed
\* with the object's secret key.
C9_ObjectKeepsItsKey == []C9_SameKey /\ [][C9_FieldsKept]_vars

\* Two tokens of one object, made with different arguments, carry the same kid.
C9_Witness ==
    \E c, d \in Returned :
        /\ c.gen = d.gen
        /\ c.args # d.args
        /\ ValueOf(HeaderOf(c), T_kid) = ValueOf(HeaderOf(d), T_kid)

InOrder(keys, order) ==
    SelectSeq(keys, LAMBDA k : k \in Range(order)) =
        SelectSeq(order, LAMBDA k : k \in Range(keys))

Section3Order ==
    <<T_rid, T_uid, T_cid, T_sub, T_aud, T_adr, T_ups, <<"t", "a", "g", "s">>, T_internal, T_nbf,
      T_exp>>

\* C10 as stated: the claim keys of a returned token follow the order rid,
\* uid, cid, sub, aud, adr, ups, tags, internal, nbf, exp.
C10_KeysInSection3Order ==
    \A c \in Returned : InOrder(Keys(ClaimsOf(c)), Section3Order)

ClaimsOrder ==
    <<T_rid, T_uid, T_adr, T_tgs, T_ups, T_cid, T_sub, T_aud, T_exp, T_nbf, T_internal>>

\* C10: the claim keys of a returned token are those of rid, uid, adr, tgs,
\* ups, cid, sub, aud, exp, nbf, internal that are present, in this order,
\* whichever options are supplied and in whatever order the options object
\* holds them.
C10_KeysInClaimsOrder ==
    \A c \in Returned :
        LET keys == Keys(ClaimsOf(c))
        IN  keys = SelectSeq(ClaimsOrder, LAMBDA k : k \in Range(keys))

\* A token of mod.ts made from an options object that lists all the options
\* from internal back to customer.
C10_Witness ==
    \E c \in Returned :
        /\ c.args.options = OptionsWith(Reverse(OptionNames("mod")))
        /\ Keys(ClaimsOf(c)) = ClaimsOrder

LifetimeOf(c) ==
    IF Supplied(c, "lifetime") THEN Get(c.args.options, "lifetime").n ELSE 300

\* C11: the nbf of every returned token is the clock second at which its own
\* call was invoked, floor(clock / 1000), and its exp is that second plus the
\* lifetime, whatever the clock shows when the call returns and whatever other
\* calls were made on the object before.
C11_NbfIsSecondOfInvocation ==
    \A c \in Returned :
        LET m == ClaimsOf(c)
        IN  /\ (c.at \div 1000) * 1000 <= c.at /\ c.at < (c.at \div 1000 + 1) * 1000
            /\ ValueOf(m, T_nbf) = NatText[c.at \div 1000]
            /\ ValueOf(m, T_exp) = NatText[c.at \div 1000 + LifetimeOf(c)]

\* Two calls on one object of mod.ts: one invoked in one second and returned in
\* the next, carrying the second of its invocation, and one invoked in that
\* next second, carrying its own.
C11_Witness ==
    \E c, d \in Returned :
        /\ scn.variant = "mod"
        /\ c.gen = d.gen
        /\ c.at \div 1000 < c.returnedAt \div 1000
        /\ d.at \div 1000 = c.returnedAt \div 1000
        /\ ValueOf(ClaimsOf(c), T_nbf) = NatText[c.at \div 1000]
        /\ ValueOf(ClaimsOf(d), T_nbf) = NatText[d.at \div 1000]

\* The seed the credentials of an object stand for.
OwnSeed(i) ==
    IF gen[i].credentials.t = "string"
    THEN SubSeq(B64Decode(gen[i].credentials.s), 2, 33)
    ELSE gen[i].credentials.key

\* C12: with mod.ts, whatever the interleaving of the constructors' async
\* arrows and of the steps of the createToken calls, a call that returns
\* belongs to an object made from valid credentials, its kid is the key id of
\* the seed of its own object, its signature is made with that seed, and its
\* claims hold its own room, user, options and clock reading.
C12_CallsKeepToTheirOwnObjectAndArguments ==
    \A c \in Returned :
        scn.variant = "mod" =>
            LET parts == Segments(c.result)
                m == ClaimsOf(c)
            IN  /\ ~InvalidKeyText(gen[c.gen].credentials)
                /\ gen[c.gen].result.keyId = Fulfilled(getKeyId_mod(OwnSeed(c.gen)))
                /\ gen[c.gen].result.secretKey = Fulfilled(OwnSeed(c.gen))
                /\ ValueOf(HeaderOf(c), T_kid) =
                      <<"\"">> \o getKeyId_mod(OwnSeed(c.gen)) \o <<"\"">>
                /\ B64Decode(parts[3]) =
                      ed25519_sign(TextEncoder_encode(parts[1] \o <<".">> \o parts[2]),
                                   OwnSeed(c.gen))
                /\ ValueOf(m, T_rid) = JSON_stringify(c.args.roomId)
                /\ ValueOf(m, T_uid) = JSON_stringify(c.args.userId)
                /\ ValueOf(m, T_nbf) = NatText[c.at \div 1000]
                /\ ValueOf(m, T_exp) = NatText[c.at \div 1000 + LifetimeOf(c)]
                /\ \A p \in OptionalClaims :
                      /\ HasKey(m, p.claim) <=> Supplied(c, p.option)
                      /\ Supplied(c, p.option) =>
                            ValueOf(m, p.claim) = JSON_stringify(Get(c.args.options, p.option))

\* Two calls with different arguments on two objects made from different
\* keys, both invoked in one second and both returned in the next, each with
\* the kid of its own object.
C12_Witness ==
    \E c, d \in Returned :
        /\ scn.variant = "mod"
        /\ c.gen # d.gen
        /\ gen[c.gen].credentials # gen[d.gen].credentials
        /\ c.args # d.args
        /\ c.at < c.returnedAt /\ d.at < d.returnedAt
        /\ c.at = d.at /\ c.returnedAt = d.returnedAt
        /\ ValueOf(HeaderOf(c), T_kid) # ValueOf(HeaderOf(d), T_kid)

\* The reference CRC-8: register 0xFF at the start, each byte XORed in and then
\* eight shifts, most significant bit first, with the polynomial 0x31, the
\* register cut to 8 bits after every shift, no final XOR.
Crc8ReferenceShift(r) ==
    IF r >= 128 THEN BitXor[(2 * r) % 256, 49] ELSE (2 * r) % 256

Crc8ReferenceByte(r, b) ==
    LET x == BitXor[r, b]
    IN  Crc8ReferenceShift(Crc8ReferenceShift(Crc8ReferenceShift(Crc8ReferenceShift(
        Crc8ReferenceShift(Crc8ReferenceShift(Crc8ReferenceShift(Crc8ReferenceShift(x))))))))

Crc8ReferenceFrom[data \in Bytes, r \in 0..255, i \in Nat] ==
    IF i = Len(data) THEN r
    ELSE Crc8ReferenceFrom[data, Crc8ReferenceByte(r, data[i + 1]), i + 1]

Crc8Reference(data) == Crc8ReferenceFrom[data, 255, 0]

\* C13: crc8, whose register is masked only after each byte, returns for every
\* input the value of the reference CRC-8 (initial register 0xFF, polynomial
\* 0x31, most significant bit first, no final XOR, masked after every shift),
\* a value in 0..255.
C13_Crc8IsReferenceCrc ==
    (op.fn = "crc8" /\ op.done) =>
        /\ op.output = Crc8Reference(op.input)
        /\ op.output \in 0..255

\* crc8 of the digits "123456789" returned 0xF7, the check value of this CRC,
\* its register having outgrown 8 bits while the first byte was shifted.
C13_Witness ==
    /\ op.fn = "crc8" /\ op.done
    /\ op.input = <<49, 50, 51, 52, 53, 54, 55, 56, 57>>
    /\ crc8Bits[BitXor[255, op.input[1]], 0] > 255
    /\ op.output = 247

\* C14: when a 33-byte key is accepted by load, the key with any one bit of
\* its bytes 1..32 (seed and checksum) inverted is rejected by load with the
\* invalid-key error.
C14_SingleBitFlipIsRejected ==
    (op.fn = "loadFlipped" /\ op.done) =>
        (LoadOf(op.variant, B64Encode(op.input.key, B64Std, TRUE)).ok =>
            /\ ~op.output.ok
            /\ op.output.error \in InvalidKeyErrors)

\* The test key, accepted by loadAccessKey, was rejected with the top bit of
\* its checksum byte inverted.
C14_Witness ==
    /\ op.fn = "loadFlipped" /\ op.done
    /\ op.variant = "sync"
    /\ op.input = [key |-> <<1>> \o TestSeed, byte |-> 32, bit |-> 7]
    /\ loadAccessKey(B64Encode(op.input.key, B64Std, TRUE)).ok
    /\ Flip(op.input)[33] = 128
    /\ op.output = [ok |-> FALSE, error |-> "invalid access key"]

\* C15: the kid in the header of every returned token is the key id of the
\* public key that belongs to the secret key the token is signed with,
\* whatever the object was constructed from.
C15_KidBelongsToSigningKey ==
    \A c \in Returned :
        LET parts == Segments(c.result)
            seed == SigningSeedOf(c.gen)
        IN  /\ B64Decode(parts[3]) =
                  ed25519_sign(TextEncoder_encode(parts[1] \o <<".">> \o parts[2]), seed)
            /\ ValueOf(HeaderOf(c), T_kid) =
                  <<"\"">> \o getKeyId(ed25519_getPublicKey(seed)) \o <<"\"">>

====
